---- MODULE Spec2Model ----
(***************************************************************************)
(* Model of pkg/codegen/json/gen_program.go: the PCL to JSON lowering      *)
(* (transformExpression, the node lowerings, transformProgram) and the     *)
(* emission driver (GenerateProgram, GenerateProject).                     *)
(*                                                                         *)
(* JSON values (Go interface{} holding nil, bool, float64, int64, string,  *)
(* []interface{} and map[string]interface{}) are tagged records with the   *)
(* tag in field j.  A Go panic is the value Panic, which every caller      *)
(* propagates (the code has no recover).                                   *)
(***************************************************************************)
EXTENDS Integers, Sequences, FiniteSets, TLC

VARIABLES
    expr,         \* the expression handed to transformExpression
    lowered,      \* what transformExpression returned for expr
    program,      \* the bound *pcl.Program handed to the generator
    binderDiags,  \* the diagnostics the upstream binder reported for program
    op,           \* the exported function that ran last
    runs,         \* how many times GenerateProgram has run on program
    programJSON,  \* programJSON of the last run (gen_program.go:237)
    files,        \* files returned by the last GenerateProgram
    diagnostics,  \* diagnostics returned by the last GenerateProgram
    err,          \* the error (or panic) the last call ended with
    fs,           \* the output directory: path -> content
    written,      \* the paths the last GenerateProject wrote
    ioFault       \* what ioutil.WriteFile did in the last GenerateProject

vars == <<expr, lowered, program, binderDiags, op, runs, programJSON, files,
          diagnostics, err, fs, written, ioFault>>

(***************************************************************************)
(* Bounds of the model.                                                    *)
(***************************************************************************)
MaxLen == 2
MaxDepth == 1
MaxNodes == 3
MaxRuns == 2

SeqsUpTo(S, n) == UNION {[1..k -> S] : k \in 0..n}

(***************************************************************************)
(* JSON values.                                                            *)
(***************************************************************************)
JNull == [j |-> "null"]
JBool(b) == [j |-> "bool", b |-> b]
\* a float64: halves counts halves (3 is 1.5); inf is +Inf
JFloat(halves, inf) == [j |-> "float64", halves |-> halves, inf |-> inf]
JInt(i) == [j |-> "int64", i |-> i]
JStr(s) == [j |-> "string", s |-> s]
JArr(items) == [j |-> "array", items |-> items]
JObj(fields) == [j |-> "object", fields |-> fields]
Panic == [j |-> "panic"]

IsObj(v) == v.j = "object"

(***************************************************************************)
(* cty values, as far as the code inspects them: the type, nullness, and   *)
(* the Go value.  A number is a count of halves, or huge (beyond the       *)
(* float64 range).                                                         *)
(***************************************************************************)
CtyBool(b) == [ty |-> "Bool", null |-> FALSE, b |-> b]
CtyNumber(halves) == [ty |-> "Number", null |-> FALSE, halves |-> halves, huge |-> FALSE]
CtyHuge == [ty |-> "Number", null |-> FALSE, halves |-> 0, huge |-> TRUE]
CtyString(s) == [ty |-> "String", null |-> FALSE, s |-> s]
CtyNull == [ty |-> "DynamicPseudoType", null |-> TRUE]
CtyList == [ty |-> "List", null |-> FALSE]

\* cty.Value.AsString panics unless the value is a known, non-null string
AsStringPanics(v) == v.ty # "String" \/ v.null
AsString(v) == v.s

\* cty.Value.AsBigFloat panics unless the value is a known, non-null number
AsBigFloatPanics(v) == v.ty # "Number" \/ v.null

\* big.Float.Float64: the nearest float64, +Inf beyond the range
Float64(v) == JFloat(v.halves, v.huge)

\* big.Float.Int64: truncation towards zero
Int64(v) == JInt(v.halves \div 2)

(***************************************************************************)
(* model.Expression and hcl.Traverser values.                              *)
(***************************************************************************)
Lit(v) == [kind |-> "LiteralValueExpression", Value |-> v]
Template(parts) == [kind |-> "TemplateExpression", Parts |-> parts]
Index(c, k) == [kind |-> "IndexExpression", Collection |-> c, Key |-> k]
Item(k, v) == [Key |-> k, Value |-> v]
ObjectCons(items) == [kind |-> "ObjectConsExpression", Items |-> items]
TupleCons(exprs) == [kind |-> "TupleConsExpression", Expressions |-> exprs]
FunctionCall(name, args) == [kind |-> "FunctionCallExpression", Name |-> name, Args |-> args]
RelativeTraversal(src, trav) ==
    [kind |-> "RelativeTraversalExpression", Source |-> src, Traversal |-> trav]
ScopeTraversal(root, trav) ==
    [kind |-> "ScopeTraversalExpression", RootName |-> root, Traversal |-> trav]
Other(kind) == [kind |-> kind]

TraverseRoot(name) == [kind |-> "TraverseRoot", Name |-> name]
TraverseAttr(name) == [kind |-> "TraverseAttr", Name |-> name]
TraverseIndex(key) == [kind |-> "TraverseIndex", Key |-> key]

\* the variants transformExpression has a case for
DocumentedKinds ==
    {"LiteralValueExpression", "TemplateExpression", "IndexExpression",
     "ObjectConsExpression", "TupleConsExpression", "FunctionCallExpression",
     "RelativeTraversalExpression", "ScopeTraversalExpression"}

\* model.Expression implementations transformExpression has no case for
OtherKinds == {"BinaryOpExpression", "ConditionalExpression", "SplatExpression"}

(***************************************************************************)
(* transformExpression.                                                    *)
(***************************************************************************)
RECURSIVE transformExpression(_)

AnyPanic(docs) == \E i \in DOMAIN docs : docs[i] = Panic

\* the value switch of the LiteralValueExpression case
literalValue(v) ==
    CASE v.ty = "Bool" -> JBool(v.b)
      [] v.ty = "Number" -> Float64(v)
      [] v.ty = "String" -> JStr(AsString(v))
      [] OTHER -> JNull

transformLiteral(e) ==
    JObj([type |-> JStr("LiteralValueExpression"), value |-> literalValue(e.Value)])

\* parts[i] = transformExpression(part), for Parts, Expressions and Args
transformEachReversed(exprs) ==
    [i \in 1..Len(exprs) |-> transformExpression(exprs[Len(exprs) + 1 - i])]

transformEach(exprs) == [i \in 1..Len(exprs) |-> transformExpression(exprs[i])]

\* the items whose key passes the type assertion item.Key.(*LiteralValueExpression)
IsLiteralKey(item) == item.Key.kind = "LiteralValueExpression"

propertyKeys(items) ==
    {AsString(items[i].Key.Value) : i \in {n \in DOMAIN items : IsLiteralKey(items[n])}}

\* the item whose assignment properties[propertyKey] = ... is the last for key k
lastItemFor(items, k) ==
    LET at == {i \in DOMAIN items : IsLiteralKey(items[i]) /\ AsString(items[i].Key.Value) = k}
    IN  items[CHOOSE i \in at : \A n \in at : n <= i]

\* the loop over objectExpr.Items: Panic when lit.Value.AsString() panics
objectPropertiesCoerced(items) ==
    IF \E i \in DOMAIN items : IsLiteralKey(items[i]) /\ AsStringPanics(items[i].Key.Value)
    THEN Panic
    ELSE JObj([k \in propertyKeys(items)
                     \cup {"key" : i \in {n \in DOMAIN items : ~IsLiteralKey(items[n])}} |->
                 IF k \in propertyKeys(items)
                 THEN transformExpression(lastItemFor(items, k).Value)
                 ELSE JNull])

objectProperties(items) ==
    IF \E i \in DOMAIN items : IsLiteralKey(items[i]) /\ AsStringPanics(items[i].Key.Value)
    THEN Panic
    ELSE LET props == [k \in propertyKeys(items) |->
                          transformExpression(lastItemFor(items, k).Value)]
         IN  IF \E i \in DOMAIN items : IsLiteralKey(items[i])
                                        /\ transformExpression(items[i].Value) = Panic
             THEN Panic
             ELSE JObj(props)

\* one iteration of the loop over traversalExpr.Traversal: the documents appended
traversalStepAlways(part) ==
    CASE part.kind = "TraverseIndex" ->
            IF AsBigFloatPanics(part.Key) THEN <<Panic>>
            ELSE <<JObj([type |-> JStr("TraverseIndex"), key |-> Int64(part.Key)])>>
      [] OTHER -> <<JObj([type |-> JStr("TraverseAttr"), name |-> JStr(part.Name)])>>

traversalStep(part) ==
    CASE part.kind = "TraverseAttr" ->
            <<JObj([type |-> JStr("TraverseAttr"), name |-> JStr(part.Name)])>>
      [] part.kind = "TraverseIndex" ->
            IF AsBigFloatPanics(part.Key) THEN <<Panic>>
            ELSE <<JObj([type |-> JStr("TraverseIndex"), key |-> Int64(part.Key)])>>
      [] OTHER -> <<>>

RECURSIVE transformTraversal(_)
transformTraversal(trav) ==
    IF trav = <<>> THEN <<>>
    ELSE traversalStep(Head(trav)) \o transformTraversal(Tail(trav))

\* the default case of the type switch
transformDefaultCoerced(e) == JObj([type |-> JStr(e.kind)])

transformDefault(e) == JNull

transformExpression(e) ==
    CASE e.kind = "LiteralValueExpression" -> transformLiteral(e)
      [] e.kind = "TemplateExpression" ->
            LET parts == transformEach(e.Parts)
            IN  IF AnyPanic(parts) THEN Panic
                ELSE JObj([type |-> JStr("TemplateExpression"), parts |-> JArr(parts)])
      [] e.kind = "IndexExpression" ->
            LET collection == transformExpression(e.Collection)
                key == transformExpression(e.Key)
            IN  IF collection = Panic \/ key = Panic THEN Panic
                ELSE JObj([type |-> JStr("IndexExpression"),
                           collection |-> collection, key |-> key])
      [] e.kind = "ObjectConsExpression" ->
            LET properties == objectProperties(e.Items)
            IN  IF properties = Panic THEN Panic
                ELSE JObj([type |-> JStr("ObjectConsExpression"), properties |-> properties])
      [] e.kind = "TupleConsExpression" ->
            LET items == transformEach(e.Expressions)
            IN  IF AnyPanic(items) THEN Panic
                ELSE JObj([type |-> JStr("TupleConsExpression"), items |-> JArr(items)])
      [] e.kind = "FunctionCallExpression" ->
            LET args == transformEach(e.Args)
            IN  IF AnyPanic(args) THEN Panic
                ELSE JObj([type |-> JStr("FunctionCallExpression"),
                           name |-> JStr(e.Name), args |-> JArr(args)])
      [] e.kind = "RelativeTraversalExpression" ->
            LET traversal == transformTraversal(e.Traversal)
                source == transformExpression(e.Source)
            IN  IF AnyPanic(traversal) \/ source = Panic THEN Panic
                ELSE JObj([type |-> JStr("RelativeTraversalExpression"),
                           source |-> source, traversal |-> JArr(traversal)])
      [] e.kind = "ScopeTraversalExpression" ->
            LET traversal == transformTraversal(e.Traversal)
            IN  IF AnyPanic(traversal) THEN Panic
                ELSE JObj([type |-> JStr("ScopeTraversalExpression"),
                           rootName |-> JStr(e.RootName), traversal |-> JArr(traversal)])
      [] OTHER -> transformDefault(e)

(***************************************************************************)
(* Node lowering.  A pcl.Node is a record with its kind; Name() and        *)
(* LogicalName() are the fields name and logicalName.                      *)
(***************************************************************************)
NoExpr == [kind |-> "nil"]
Attribute(name, value) == [Name |-> name, Value |-> value]
Resource(name, token, inputs) ==
    [kind |-> "Resource", name |-> name, logicalName |-> name, Token |-> token,
     Inputs |-> inputs]
LocalVariable(name, value) ==
    [kind |-> "LocalVariable", name |-> name, logicalName |-> name, Value |-> value]
OutputVariable(name, value) ==
    [kind |-> "OutputVariable", name |-> name, logicalName |-> name, Value |-> value]
ConfigVariable(name, type, default) ==
    [kind |-> "ConfigVariable", name |-> name, logicalName |-> name, Type |-> type,
     DefaultValue |-> default]
Component(name) == [kind |-> "Component", name |-> name, logicalName |-> name]

\* the four variants transformProgram has a case for
NodeKinds == {"Resource", "OutputVariable", "LocalVariable", "ConfigVariable"}

attributeNames(inputs) == {inputs[i].Name : i \in DOMAIN inputs}

\* the attr whose assignment attributes[attr.Name] = ... is the last for name k
lastAttrFor(inputs, k) ==
    LET at == {i \in DOMAIN inputs : inputs[i].Name = k}
    IN  inputs[CHOOSE i \in at : \A n \in at : n <= i]

\* the loop over resource.Inputs
resourceAttributesDropLast(inputs) ==
    [k \in {inputs[i].Name : i \in 1..(Len(inputs) - 1)} |->
        transformExpression(lastAttrFor(inputs, k).Value)]

resourceAttributes(inputs) ==
    [k \in attributeNames(inputs) |-> transformExpression(lastAttrFor(inputs, k).Value)]

transformResource(resource) ==
    LET attributes == resourceAttributes(resource.Inputs)
    IN  IF \E k \in DOMAIN attributes : attributes[k] = Panic THEN Panic
        ELSE JObj([type |-> JStr("Resource"),
                   name |-> JStr(resource.name),
                   token |-> JStr(resource.Token),
                   logicalName |-> JStr(resource.logicalName),
                   attributes |-> JObj(attributes)])

transformLocalVariable(variable) ==
    LET value == transformExpression(variable.Value)
    IN  IF value = Panic THEN Panic
        ELSE JObj([type |-> JStr("LocalVariable"),
                   name |-> JStr(variable.name),
                   logicalName |-> JStr(variable.logicalName),
                   value |-> value])

transformOutput(output) ==
    LET value == transformExpression(output.Value)
    IN  IF value = Panic THEN Panic
        ELSE JObj([type |-> JStr("OutputVariable"),
                   name |-> JStr(output.name),
                   logicalName |-> JStr(output.logicalName),
                   value |-> value])

transformConfigVariable(variable) ==
    JObj([type |-> JStr("ConfigVariable"),
          configType |-> JStr(variable.Type),
          name |-> JStr(variable.name),
          logicalName |-> JStr(variable.logicalName)])

\* one iteration of the loop over program.Nodes: the documents appended
transformNodeUnfiltered(node) ==
    CASE node.kind = "Resource" -> <<transformResource(node)>>
      [] node.kind = "OutputVariable" -> <<transformOutput(node)>>
      [] node.kind = "LocalVariable" -> <<transformLocalVariable(node)>>
      [] node.kind = "ConfigVariable" -> <<transformConfigVariable(node)>>
      [] OTHER -> <<JNull>>

transformNode(node) ==
    CASE node.kind = "Resource" -> <<transformResource(node)>>
      [] node.kind = "OutputVariable" -> <<transformOutput(node)>>
      [] node.kind = "LocalVariable" -> <<transformLocalVariable(node)>>
      [] node.kind = "ConfigVariable" -> <<transformConfigVariable(node)>>
      [] OTHER -> <<>>

RECURSIVE transformNodes(_)
transformNodes(nodes) ==
    IF nodes = <<>> THEN <<>>
    ELSE transformNode(Head(nodes)) \o transformNodes(Tail(nodes))

\* the loop over program.Packages()
transformPackages(packages) ==
    [i \in 1..Len(packages) |->
        JObj([name |-> JStr(packages[i].Name), version |-> JStr(packages[i].Version)])]

transformProgram(p) ==
    LET nodes == transformNodes(p.Nodes)
        packages == transformPackages(p.Packages)
    IN  IF AnyPanic(nodes) THEN Panic
        ELSE JObj([nodes |-> JArr(nodes), packages |-> JArr(packages)])

(***************************************************************************)
(* json.MarshalIndent(programJSON, "", "  ").                              *)
(***************************************************************************)
\* every map key of a lowered document, in the byte order encoding/json sorts by
KeyOrder ==
    <<"a", "acl", "args", "attributes", "b", "collection", "configType", "items",
      "key", "logicalName", "name", "nodes", "packages", "parts", "properties",
      "rootName", "source", "token", "traversal", "type", "value", "version">>

Reverse(s) == [i \in 1..Len(s) |-> s[Len(s) + 1 - i]]

\* a map's keys in an order that changes from run to run
EmittedKeysUnsorted(fields) ==
    LET sorted == SelectSeq(KeyOrder, LAMBDA k : k \in DOMAIN fields)
    IN  IF runs % 2 = 0 THEN sorted ELSE Reverse(sorted)

\* the order in which encoding/json emits a map's keys: sorted
EmittedKeys(fields) == SelectSeq(KeyOrder, LAMBDA k : k \in DOMAIN fields)

RECURSIVE Unsupported(_)
\* encoding/json rejects +Inf (UnsupportedValueError)
Unsupported(v) ==
    CASE v.j = "float64" -> v.inf
      [] v.j = "array" -> \E i \in DOMAIN v.items : Unsupported(v.items[i])
      [] v.j = "object" -> \E k \in DOMAIN v.fields : Unsupported(v.fields[k])
      [] OTHER -> FALSE

Quote(s) == "\"" \o s \o "\""

RECURSIVE Indent(_)
Indent(depth) == IF depth = 0 THEN "" ELSE "  " \o Indent(depth - 1)

NewLine(depth) == "\n" \o Indent(depth)

RECURSIVE Join(_, _)
Join(strs, sep) ==
    IF strs = <<>> THEN ""
    ELSE IF Len(strs) = 1 THEN strs[1]
    ELSE strs[1] \o sep \o Join(Tail(strs), sep)

RECURSIVE Encode(_, _)
Encode(v, depth) ==
    CASE v.j = "null" -> "null"
      [] v.j = "bool" -> IF v.b THEN "true" ELSE "false"
      [] v.j = "float64" ->
            ToString(v.halves \div 2) \o (IF v.halves % 2 = 1 THEN ".5" ELSE "")
      [] v.j = "int64" -> ToString(v.i)
      [] v.j = "string" -> Quote(v.s)
      [] v.j = "array" ->
            IF v.items = <<>> THEN "[]"
            ELSE "[" \o NewLine(depth + 1)
                 \o Join([i \in 1..Len(v.items) |-> Encode(v.items[i], depth + 1)],
                         "," \o NewLine(depth + 1))
                 \o NewLine(depth) \o "]"
      [] v.j = "object" ->
            LET keys == EmittedKeys(v.fields)
            IN  IF keys = <<>> THEN "{}"
                ELSE "{" \o NewLine(depth + 1)
                     \o Join([i \in 1..Len(keys) |->
                                 Quote(keys[i]) \o ": " \o Encode(v.fields[keys[i]], depth + 1)],
                             "," \o NewLine(depth + 1))
                     \o NewLine(depth) \o "}"

MarshalIndent(v) ==
    IF Unsupported(v) THEN [bytes |-> "", err |-> "unsupported value"]
    ELSE [bytes |-> Encode(v, 0), err |-> "nil"]

(***************************************************************************)
(* The emission driver.                                                    *)
(***************************************************************************)
NoFiles == [f \in {} |-> ""]
NotRun == [j |-> "pending"]
directory == "out"

\* hcl.Diagnostics.HasErrors
HasErrors(diags) == \E i \in DOMAIN diags : diags[i].Severity = "DiagError"

\* path.Join(directory, filename)
pathJoin(dir, filename) == dir \o "/" \o filename

\* GenerateProgram: what it returns, with programJSON; a panic of the lowering
\* ends the call
GenerateProgram(p) ==
    LET doc == transformProgram(p)
        marshalled == MarshalIndent(doc)
    IN  IF doc = Panic
        THEN [programJSON |-> Panic, files |-> NoFiles, diagnostics |-> <<>>,
              err |-> "panic"]
        ELSE IF marshalled.err # "nil"
        THEN [programJSON |-> doc, files |-> NoFiles, diagnostics |-> <<>>,
              err |-> "could not marshal program to JSON"]
        ELSE [programJSON |-> doc,
              files |-> [f \in {"program.json"} |-> marshalled.bytes],
              diagnostics |-> <<>>,
              err |-> "nil"]

\* the outcomes of ioutil.WriteFile(outPath, data, 0600): written, not opened,
\* or opened (truncated) and then failed
WriteFaults == {"ok", "open", "write"}

\* err of ioutil.WriteFile as GenerateProject returns it
writeErrorIgnored(fault) == "nil"

writeError(fault) ==
    IF fault = "ok" THEN "nil" ELSE "could not write output program"

Overlay(dir, m) ==
    [path \in DOMAIN dir \cup DOMAIN m |-> IF path \in DOMAIN m THEN m[path] ELSE dir[path]]

\* the files of names, as outPath -> data
Outputs(fileMap, names) ==
    [path \in {pathJoin(directory, f) : f \in names} |->
        fileMap[CHOOSE f \in names : pathJoin(directory, f) = path]]

\* a caller runs GenerateProgram(program)
CallGenerateProgram ==
    /\ runs < MaxRuns
    /\ \E r \in {GenerateProgram(program)} :
           /\ programJSON' = r.programJSON
           /\ files' = r.files
           /\ diagnostics' = r.diagnostics
           /\ err' = r.err
    /\ op' = "GenerateProgram"
    /\ runs' = runs + 1
    /\ written' = {}
    /\ ioFault' = "none"
    /\ UNCHANGED <<expr, lowered, program, binderDiags, fs>>

\* a caller runs GenerateProject(directory, project, program)
GenerateProject ==
    /\ runs < MaxRuns
    /\ \E r \in {GenerateProgram(program)} :
           /\ programJSON' = r.programJSON
           /\ files' = r.files
           /\ diagnostics' = r.diagnostics
           /\ IF r.err # "nil"
              THEN /\ err' = r.err
                   /\ written' = {}
                   /\ ioFault' = "none"
                   /\ fs' = fs
              ELSE IF HasErrors(r.diagnostics)
              THEN /\ err' = "diagnostics"
                   /\ written' = {}
                   /\ ioFault' = "none"
                   /\ fs' = fs
              ELSE \E fault \in WriteFaults, f \in DOMAIN r.files :
                   \E before \in SUBSET (DOMAIN r.files \ {f}) :
                      /\ ioFault' = fault
                      /\ err' = writeError(fault)
                      /\ CASE fault = "ok" ->
                                /\ fs' = Overlay(fs, Outputs(r.files, DOMAIN r.files))
                                /\ written' = DOMAIN Outputs(r.files, DOMAIN r.files)
                           [] fault = "open" ->
                                /\ fs' = Overlay(fs, Outputs(r.files, before))
                                /\ written' = DOMAIN Outputs(r.files, before)
                           [] fault = "write" ->
                                /\ fs' = Overlay(Overlay(fs, Outputs(r.files, before)),
                                                 [path \in {pathJoin(directory, f)} |-> ""])
                                /\ written' = DOMAIN Outputs(r.files, before)
                                              \cup {pathJoin(directory, f)}
    /\ op' = "GenerateProject"
    /\ runs' = runs + 1
    /\ UNCHANGED <<expr, lowered, program, binderDiags>>

(***************************************************************************)
(* The inputs.                                                             *)
(***************************************************************************)
LitStr(s) == Lit(CtyString(s))
LitNum(halves) == Lit(CtyNumber(halves))

LiteralValues ==
    {CtyBool(TRUE), CtyNumber(2), CtyNumber(3), CtyHuge, CtyString("a"), CtyString("b"),
     CtyNull, CtyList}

\* foo["a"] is a TraverseIndex with a string key
Steps ==
    {TraverseAttr("arn"), TraverseIndex(CtyNumber(2)), TraverseIndex(CtyNumber(5)),
     TraverseIndex(CtyString("a"))}

\* the Traversal of a ScopeTraversalExpression starts with its TraverseRoot
ScopeTraversals ==
    {ScopeTraversal("bucket", <<TraverseRoot("bucket")>> \o steps) :
        steps \in SeqsUpTo(Steps, MaxLen)}

BucketArn == ScopeTraversal("bucket", <<TraverseRoot("bucket"), TraverseAttr("arn")>>)

RelativeTraversals ==
    {RelativeTraversal(src, steps) :
        src \in {FunctionCall("f", <<>>), Other("SplatExpression")},
        steps \in SeqsUpTo(Steps, MaxLen)}

SeqElems == {LitStr("a"), LitNum(2), Other("BinaryOpExpression"), BucketArn}

Sequences ==
    UNION {{Template(es), TupleCons(es), FunctionCall("f", es)} :
              es \in SeqsUpTo(SeqElems, MaxLen)}

Indexes == {Index(c, k) : c \in SeqElems, k \in SeqElems}

Items ==
    {Item(k, v) : k \in {LitStr("a"), LitStr("b"), LitNum(2), BucketArn},
                  v \in {LitStr("a"), Other("BinaryOpExpression")}}

ObjectConses == {ObjectCons(items) : items \in SeqsUpTo(Items, MaxLen)}

Flat ==
    {Lit(v) : v \in LiteralValues} \cup {Other(k) : k \in OtherKinds}
    \cup ScopeTraversals \cup RelativeTraversals \cup Sequences \cup Indexes
    \cup ObjectConses

\* e as a sub-expression of each variant that has sub-expressions
Wrap(e) ==
    {Template(<<LitStr("a"), e>>), TupleCons(<<e>>), FunctionCall("f", <<e, LitNum(2)>>),
     Index(e, LitStr("a")), ObjectCons(<<Item(LitStr("a"), e)>>),
     RelativeTraversal(e, <<TraverseAttr("arn")>>)}

RECURSIVE Nested(_)
Nested(depth) ==
    IF depth = 0 THEN Flat ELSE UNION {Wrap(e) : e \in Nested(depth - 1)}

Exprs == UNION {Nested(depth) : depth \in 0..MaxDepth}

\* the inputs of the resource: distinct attribute names, in any declaration order
InputSeqs ==
    {inputs \in SeqsUpTo({Attribute("name", LitStr("a")), Attribute("acl", BucketArn)}, MaxLen) :
        \A i, k \in DOMAIN inputs : i # k => inputs[i].Name # inputs[k].Name}

NodePool ==
    {Resource("bucket", "test:index:Bucket", inputs) : inputs \in InputSeqs}
    \cup {LocalVariable("x", TupleCons(<<LitNum(3), LitStr("a")>>)),
          OutputVariable("out", BucketArn),
          ConfigVariable("zone", "string", LitStr("a")),
          Component("comp"),
          LocalVariable("big", Lit(CtyHuge)),
          OutputVariable("bad", ObjectCons(<<Item(LitNum(2), LitStr("a"))>>))}

\* pcl.Program.Packages(): the packages the program's resources come from
PackagesOf(nodes) ==
    IF \E i \in DOMAIN nodes : nodes[i].kind = "Resource"
    THEN <<[Name |-> "test", Version |-> "1.0.0"]>>
    ELSE <<>>

\* the binder gives every node a name of its own
UniqueNames(nodes) == \A i, k \in DOMAIN nodes : i # k => nodes[i].name # nodes[k].name

\* the *pcl.Program of nodes
Program(nodes) == [Nodes |-> nodes, Packages |-> PackagesOf(nodes)]

\* what the binder reported: nothing, or a warning and an error
BinderDiags ==
    {<<>>, <<[Severity |-> "DiagWarning"], [Severity |-> "DiagError"]>>}

Idle ==
    /\ op = "none"
    /\ runs = 0
    /\ programJSON = NotRun
    /\ files = NoFiles
    /\ diagnostics = <<>>
    /\ err = "nil"
    /\ fs = NoFiles
    /\ written = {}
    /\ ioFault = "none"

Init ==
    /\ \E k \in 0..MaxNodes : \E nodes \in [1..k -> NodePool] :
          /\ UniqueNames(nodes)
          /\ program = Program(nodes)
    /\ binderDiags \in BinderDiags
    /\ expr = NoExpr
    /\ lowered = NotRun
    /\ Idle

Next == CallGenerateProgram \/ GenerateProject

Spec == Init /\ [][Next]_vars

\* transformExpression(expr)
LowerExpression ==
    /\ lowered = NotRun
    /\ lowered' = transformExpression(expr)
    /\ UNCHANGED <<expr, program, binderDiags, op, runs, programJSON, files,
                   diagnostics, err, fs, written, ioFault>>

InitExpr ==
    /\ expr \in Exprs
    /\ lowered = NotRun
    /\ program = [Nodes |-> <<>>, Packages |-> <<>>]
    /\ binderDiags = <<>>
    /\ Idle

NextExpr == LowerExpression

SpecExpr == InitExpr /\ [][NextExpr]_vars

(***************************************************************************)
(* Claims about transformExpression, checked under SpecExpr.               *)
(***************************************************************************)
Lowered == lowered # NotRun
Returned == Lowered /\ lowered # Panic

\* C3: expression lowering is total: whatever the expression (null and
\* non-scalar literals, ObjectCons items keyed by a literal that is no string,
\* nested sub-expressions), transformExpression returns and never panics.
C3_LoweringIsTotal == lowered # Panic

IsLiteralString(e) ==
    e.kind = "LiteralValueExpression" /\ e.Value.ty = "String" /\ ~e.Value.null

StringKeyed(items) == {i \in DOMAIN items : IsLiteralString(items[i].Key)}

StepDocument(part) ==
    IF part.kind = "TraverseAttr"
    THEN JObj([type |-> JStr("TraverseAttr"), name |-> JStr(part.Name)])
    ELSE JObj([type |-> JStr("TraverseIndex"), key |-> JInt(part.Key.halves \div 2)])

IsStep(part) == part.kind \in {"TraverseAttr", "TraverseIndex"}

SameOrder(exprs, docs) ==
    /\ Len(docs) = Len(exprs)
    /\ \A i \in DOMAIN exprs : docs[i] = transformExpression(exprs[i])

SequencesKept ==
    CASE expr.kind = "TemplateExpression" ->
            SameOrder(expr.Parts, lowered.fields.parts.items)
      [] expr.kind = "TupleConsExpression" ->
            SameOrder(expr.Expressions, lowered.fields.items.items)
      [] expr.kind = "FunctionCallExpression" ->
            SameOrder(expr.Args, lowered.fields.args.items)
      [] OTHER -> TRUE

IsTraversal ==
    expr.kind \in {"RelativeTraversalExpression", "ScopeTraversalExpression"}

RECURSIVE TagsNameVariants(_, _)
\* d is null for an undocumented e, and otherwise a document tagged with e's
\* variant whose sub-documents are so too
TagsNameVariants(e, d) ==
    IF e.kind \notin DocumentedKinds THEN d = JNull
    ELSE /\ IsObj(d)
         /\ d.fields.type = JStr(e.kind)
         /\ CASE e.kind \in {"TemplateExpression", "TupleConsExpression",
                             "FunctionCallExpression"} ->
                    LET subs == CASE e.kind = "TemplateExpression" -> e.Parts
                                  [] e.kind = "TupleConsExpression" -> e.Expressions
                                  [] OTHER -> e.Args
                        docs == CASE e.kind = "TemplateExpression" -> d.fields.parts.items
                                  [] e.kind = "TupleConsExpression" -> d.fields.items.items
                                  [] OTHER -> d.fields.args.items
                    IN  /\ DOMAIN docs = DOMAIN subs
                        /\ \A i \in DOMAIN subs : TagsNameVariants(subs[i], docs[i])
              [] e.kind = "IndexExpression" ->
                    /\ TagsNameVariants(e.Collection, d.fields.collection)
                    /\ TagsNameVariants(e.Key, d.fields.key)
              [] e.kind = "ObjectConsExpression" ->
                    \A k \in DOMAIN d.fields.properties.fields :
                        \E i \in StringKeyed(e.Items) :
                            /\ e.Items[i].Key.Value.s = k
                            /\ TagsNameVariants(e.Items[i].Value,
                                                d.fields.properties.fields[k])
              [] e.kind = "RelativeTraversalExpression" ->
                    TagsNameVariants(e.Source, d.fields.source)
              [] OTHER -> TRUE

\* C10: transformExpression returns the null marker exactly for the expressions
\* outside the eight documented variants; a documented variant lowers to a
\* document whose type tag names the variant, at every nesting depth.
C10_NullExactlyForUndocumented ==
    Lowered =>
        /\ lowered = JNull <=> expr.kind \notin DocumentedKinds
        /\ lowered # Panic => TagsNameVariants(expr, lowered)

\* C10 witness: an undocumented expression nested in a tuple lowered to the null
\* marker inside the tuple's document.
C10_Witness ==
    /\ Returned
    /\ expr.kind = "TupleConsExpression"
    /\ Len(expr.Expressions) = 2
    /\ expr.Expressions[1].kind \in DocumentedKinds
    /\ expr.Expressions[2].kind \in OtherKinds
    /\ lowered.fields.type = JStr("TupleConsExpression")
    /\ lowered.fields.items.items[2] = JNull

(***************************************************************************)
(* Claims about the node lowerings, transformProgram and the emission      *)
(* driver, checked under Spec.                                             *)
(***************************************************************************)
\* the nodes of the four documented variants, in declaration order
Retained == SelectSeq(program.Nodes, LAMBDA n : n.kind \in NodeKinds)

NodeLowering(n) ==
    CASE n.kind = "Resource" -> transformResource(n)
      [] n.kind = "OutputVariable" -> transformOutput(n)
      [] n.kind = "LocalVariable" -> transformLocalVariable(n)
      [] n.kind = "ConfigVariable" -> transformConfigVariable(n)

\* transformProgram returned programJSON
Assembled == programJSON # NotRun /\ programJSON # Panic

\* C1: the nodes list of transformProgram is the input node sequence restricted
\* to Resource, OutputVariable, LocalVariable and ConfigVariable, in the same
\* order: the i-th lowered node is the lowering of the i-th retained node and
\* carries its variant's type tag; other nodes are skipped without an error.
C1_NodesInDeclarationOrder ==
    /\ Assembled =>
          LET nodes == programJSON.fields.nodes.items
          IN  /\ Len(nodes) = Len(Retained)
              /\ \A i \in DOMAIN nodes :
                    /\ nodes[i] = NodeLowering(Retained[i])
                    /\ nodes[i].fields.type = JStr(Retained[i].kind)
    /\ (op # "none" /\ \A i \in DOMAIN Retained : NodeLowering(Retained[i]) # Panic)
       => programJSON # Panic

\* C1 witness: three nodes, the second of no documented variant, assembled into
\* the documents of the first and the third.
C1_Witness ==
    /\ Assembled
    /\ Len(program.Nodes) = 3
    /\ program.Nodes[1].kind = "OutputVariable"
    /\ program.Nodes[2].kind = "Component"
    /\ program.Nodes[3].kind = "Resource"
    /\ Len(programJSON.fields.nodes.items) = 2
    /\ programJSON.fields.nodes.items[2].fields.type = JStr("Resource")

\* C2: when the diagnostics of the run, those of the upstream binder included,
\* hold an error, no file is written, and GenerateProject returns the
\* diagnostics as its failure.
C2_NoFileAfterErrorDiagnostics ==
    HasErrors(binderDiags) =>
        /\ fs = NoFiles
        /\ op = "GenerateProject" => err = "diagnostics"

\* C5: the document of a ConfigVariable has the type ConfigVariable, the name,
\* the logicalName and the configType, and, when the variable has a default
\* value, a further field holding the lowering of the default.
C5_ConfigVariableCarriesDefault ==
    Assembled =>
        \A i \in DOMAIN Retained :
            Retained[i].kind = "ConfigVariable" =>
                LET variable == Retained[i]
                    fields == programJSON.fields.nodes.items[i].fields
                    named == [type |-> JStr("ConfigVariable"),
                              name |-> JStr(variable.name),
                              logicalName |-> JStr(variable.logicalName),
                              configType |-> JStr(variable.Type)]
                IN  /\ \A k \in DOMAIN named : k \in DOMAIN fields /\ fields[k] = named[k]
                    /\ IF variable.DefaultValue = NoExpr
                       THEN DOMAIN fields = DOMAIN named
                       ELSE \E k \in DOMAIN fields \ DOMAIN named :
                               fields[k] = transformExpression(variable.DefaultValue)

\* the bytes of a JSON object whose keys are emitted in the order of keys
ObjectBytes(keys, fields, depth) ==
    IF keys = <<>> THEN "{}"
    ELSE "{" \o NewLine(depth + 1)
         \o Join([i \in 1..Len(keys) |->
                     Quote(keys[i]) \o ": " \o Encode(fields[keys[i]], depth + 1)],
                 "," \o NewLine(depth + 1))
         \o NewLine(depth) \o "}"

\* the attributes mapping has one entry per input attribute, keyed by the
\* attribute's name and holding the lowering of its value
OneEntryPerInput(inputs, attributes) ==
    /\ DOMAIN attributes.fields = {inputs[k].Name : k \in DOMAIN inputs}
    /\ Cardinality(DOMAIN attributes.fields) = Len(inputs)
    /\ \A k \in DOMAIN inputs :
          attributes.fields[inputs[k].Name] = transformExpression(inputs[k].Value)

\* C6 as claimed: the attributes mapping of a Resource has one entry per input
\* attribute, and the emitted mapping (at nesting depth 3 of program.json)
\* lists them in declaration order.
C6_AttributesInDeclarationOrder ==
    files # NoFiles =>
        \A i \in DOMAIN Retained :
            Retained[i].kind = "Resource" =>
                LET inputs == Retained[i].Inputs
                    attributes == programJSON.fields.nodes.items[i].fields.attributes
                IN  /\ OneEntryPerInput(inputs, attributes)
                    /\ Encode(attributes, 3)
                         = ObjectBytes([k \in 1..Len(inputs) |-> inputs[k].Name],
                                       attributes.fields, 3)

\* C6 amended: the attributes mapping of a Resource has one entry per input
\* attribute, and the emitted mapping lists them in the byte order of their
\* names, whatever the declaration order.
C6_AttributesInNameOrder ==
    files # NoFiles =>
        \A i \in DOMAIN Retained :
            Retained[i].kind = "Resource" =>
                LET inputs == Retained[i].Inputs
                    attributes == programJSON.fields.nodes.items[i].fields.attributes
                    names == {inputs[k].Name : k \in DOMAIN inputs}
                IN  /\ OneEntryPerInput(inputs, attributes)
                    /\ Encode(attributes, 3)
                         = ObjectBytes(SelectSeq(KeyOrder, LAMBDA k : k \in names),
                                       attributes.fields, 3)

\* C6 witness: a resource declaring name before acl was emitted.
C6_Witness ==
    /\ files # NoFiles
    /\ \E i \in DOMAIN Retained :
          /\ Retained[i].kind = "Resource"
          /\ Len(Retained[i].Inputs) = 2
          /\ Retained[i].Inputs[1].Name = "name"
          /\ Retained[i].Inputs[2].Name = "acl"
          /\ DOMAIN programJSON.fields.nodes.items[i].fields.attributes.fields
               = {"acl", "name"}

C8_OneFileOrAnError ==
    /\ (op = "GenerateProgram" /\ err = "nil") => DOMAIN files = {"program.json"}
    /\ (op = "GenerateProject" /\ err = "nil") =>
          /\ DOMAIN files = {"program.json"}
          /\ written = {pathJoin(directory, "program.json")}
          /\ fs[pathJoin(directory, "program.json")] = files["program.json"]
    /\ (op = "GenerateProject" /\ ioFault \in {"open", "write"}) => err # "nil"
    /\ (Assembled /\ Unsupported(programJSON)) => err # "nil" /\ files = NoFiles

\* C8 witness: GenerateProject succeeded after an earlier write had failed and
\* left a truncated file.
C8_Witness ==
    /\ op = "GenerateProject"
    /\ runs = 2
    /\ err = "nil"
    /\ ioFault = "ok"
    /\ written = {"out/program.json"}
    /\ fs["out/program.json"] # ""

====
